---- MODULE Spec2Model ----
(***************************************************************************)
(* A model of src/pysrc/parsing.py: the live-trace translator              *)
(* (print_heap_call, parse_file_heap_use), the pattern generator           *)
(* (generate_frees, generate_allocs, generate_reallocs,                    *)
(* generate_file_heap_use) and the script validator (validate_script).     *)
(*                                                                         *)
(* A script line is a record [text, end]: text is the tuple of the line's  *)
(* space separated tokens (<<"a", id, bytes>>, <<"r", id, bytes>> or       *)
(* <<"f", id>>) and end is what print() wrote after it ("\n" or "").       *)
(* Python's None is the value None (-1): addresses, ids and byte counts    *)
(* of the model are all >= 0, so it is distinct from each of them.         *)
(***************************************************************************)
EXTENDS Integers, Sequences, FiniteSets, TLC

VARIABLES
    \* sys.stdout while it is redirected to the script file
    output,
    \* ---- translator (parse_file_heap_use)
    memory_dict,    \* address -> list of live ids, in dict insertion order
    memory_ids,     \* the next id
    line,           \* the input line print_heap_call processed last
    pc,             \* "reading" the trace, or "done" after the final flush
    before,         \* history: the translator's state before its last step
    twin,           \* a second run over the same trace: of the translator, or
                    \* of its draft in trace_parsing.py
    shared,         \* history: the trace read by the translator and its draft
                    \* held an alloc for an address that had a live id
    \* ---- generator (generate_file_heap_use)
    id_byte_map,    \* id -> bytes, in dict insertion order
    alloc_ids,
    free_ids,
    realloc_ids,
    arg,            \* the directive processed last
    nargs,          \* directives processed so far
    gpc,            \* "args", "done", "leak", "ZeroDivisionError", "hang"
    gbefore,        \* history: the generator's state before its last step
    \* ---- validator (validate_script)
    vfile,                  \* the lines of the file it reads
    vidx,                   \* lines consumed so far
    memory_request_dict,    \* id -> first request kept for it
    verr                    \* NoError, or the ValueError raised

tvars == <<memory_dict, memory_ids, line, pc, before, twin, shared>>
gvars == <<id_byte_map, alloc_ids, free_ids, realloc_ids, arg, nargs, gpc, gbefore>>
vvars == <<vfile, vidx, memory_request_dict, verr>>
vars == <<output, tvars, gvars, vvars>>

---------------------------------------------------------------------------
\* Bounds of the model.

\* the translator reads trace lines while its script has fewer lines than this
MaxLines == 4
\* a byte count a trace line or a directive can carry, besides 0 and None
SomeBytes == 48
\* directives of an argument list
MaxArgs == 3
\* the largest count a directive carries
MaxCount == 3

MaxSpan == 2

MaxSizedArgs == 2

BufferSize == 8
\* lines of a file given to the validator alone
MaxScript == 5
\* the ids of such a file are 0..MaxId
MaxId == 1

---------------------------------------------------------------------------
\* Python values.

None == -1

\* No exception raised (line numbers of errors start at 1).
NoError == [line |-> 0, msg |-> ""]

Range(s) == {s[i] : i \in 1..Len(s)}

Last(s) == s[Len(s)]

Front(s) == SubSeq(s, 1, Len(s) - 1)

RECURSIVE Concat(_)
\* The concatenation of a sequence of sequences.
Concat(ss) == IF ss = <<>> THEN <<>> ELSE Head(ss) \o Concat(Tail(ss))

\* ---- a dict as the sequence of its items [key, val] in insertion order

Keys(d) == {d[i].key : i \in 1..Len(d)}

Get(d, k) == d[CHOOSE i \in 1..Len(d) : d[i].key = k].val

\* d[k] = v: a present key keeps its place, a new key goes last
SetItem(d, k, v) ==
    IF k \in Keys(d)
    THEN [i \in 1..Len(d) |-> IF d[i].key = k THEN [key |-> k, val |-> v] ELSE d[i]]
    ELSE Append(d, [key |-> k, val |-> v])

\* d.pop(k)
Pop(d, k) == SelectSeq(d, LAMBDA it : it.key # k)

---------------------------------------------------------------------------
\* Script lines.

Heap_Call == {"alloc", "realloc", "free"}

Print_Call == [alloc |-> "a", realloc |-> "r", free |-> "f", leak |-> "l"]

\* add_line: the text of a script line
add_line(call_type, memory_id, total_bytes) ==
    CASE call_type = "free" -> <<Print_Call.free, memory_id>>
      [] call_type = "alloc" -> <<Print_Call.alloc, memory_id, total_bytes>>
      [] call_type = "realloc" -> <<Print_Call.realloc, memory_id, total_bytes>>

\* print(text): the line and a newline
Println(text) == [text |-> text, end |-> "\n"]

\* print(text, end=''): the line alone
PrintNoEnd(text) == [text |-> text, end |-> ""]

---------------------------------------------------------------------------
\* The live-trace translator.

\* The byte counts get_heap_bytes can return for a call.
Bytes == {None, 0, SomeBytes}

\* The truthy addresses get_heap_address returns: print_heap_call only asks
\* whether an address is a key of the dict, and two addresses tell a shared
\* address from distinct ones.
Addresses == {1, 2}

\* A trace line as the three decoders see it. print_heap_call returns before
\* it decodes the call of a line that has no address (None) or address 0, and
\* it decodes the bytes of alloc and realloc lines only: the fields it never
\* reads are None / "None".
Lines ==
    [addr : {None, 0}, call : {"None"}, bytes : {None}]
    \cup [addr : Addresses, call : {"None", "free"}, bytes : {None}]
    \cup [addr : Addresses, call : {"alloc", "realloc"}, bytes : Bytes]

\* get_heap_address, get_heap_call, get_heap_bytes of a decoded line
get_heap_address(l) == l.addr

get_heap_call(l) == l.call

get_heap_bytes(l) == l.bytes

\* The state print_heap_call works on and returns.
TState(d, ids, out) == [dict |-> d, ids |-> ids, out |-> out]

\* FreeCall taking the oldest id of the list instead of the newest.
FreeCall_Fifo(d, ids, out, heap_address) ==
    LET id_list == Get(d, heap_address)
        to_del == id_list[1]
        popped == Tail(id_list)
    IN  TState(IF Len(popped) = 0
               THEN Pop(d, heap_address)
               ELSE SetItem(d, heap_address, popped),
               ids,
               Append(out, Println(add_line("free", to_del, 0))))

\* FreeCall leaving the address in the dict when its list is emptied.
FreeCall_KeepsEmpty(d, ids, out, heap_address) ==
    LET id_list == Get(d, heap_address)
        to_del == id_list[Len(id_list)]
        popped == Front(id_list)
    IN  TState(SetItem(d, heap_address, popped),
               ids,
               Append(out, Println(add_line("free", to_del, 0))))

\* print_heap_call, the free branch: the last id of the address's list is
\* printed and popped, and the emptied list's address is dropped.
FreeCall(d, ids, out, heap_address) ==
    LET id_list == Get(d, heap_address)
        to_del == id_list[Len(id_list)]
        popped == Front(id_list)
    IN  TState(IF Len(popped) = 0
               THEN Pop(d, heap_address)
               ELSE SetItem(d, heap_address, popped),
               ids,
               Append(out, Println(add_line("free", to_del, 0))))

\* SynthesizeAlloc without its alloc line.
SynthesizeAlloc_NoLine(d, ids, out, heap_address) ==
    IF heap_address \notin Keys(d)
    THEN TState(SetItem(d, heap_address, <<ids>>), ids + 1, out)
    ELSE TState(d, ids, out)

\* SynthesizeAlloc without the increment of the next id.
SynthesizeAlloc_NoIncrement(d, ids, out, heap_address) ==
    IF heap_address \notin Keys(d)
    THEN TState(SetItem(d, heap_address, <<ids>>),
                ids,
                Append(out, Println(add_line("alloc", ids, 8))))
    ELSE TState(d, ids, out)

\* print_heap_call, the realloc branch before the choice: an address that is
\* not in the dict gets the next id and an alloc line of 8 bytes.
SynthesizeAlloc(d, ids, out, heap_address) ==
    IF heap_address \notin Keys(d)
    THEN TState(SetItem(d, heap_address, <<ids>>),
                ids + 1,
                Append(out, Println(add_line("alloc", ids, 8))))
    ELSE TState(d, ids, out)

\* ReallocCall taking the chosen id out of the address's list.
ReallocCall_PopsChosen(d, ids, out, l) ==
    LET s == SynthesizeAlloc(d, ids, out, get_heap_address(l))
    IN  { LET rest == SelectSeq(Get(s.dict, get_heap_address(l)),
                                LAMBDA id : id # to_realloc)
          IN  TState(IF rest = <<>>
                     THEN Pop(s.dict, get_heap_address(l))
                     ELSE SetItem(s.dict, get_heap_address(l), rest),
                     s.ids,
                     Append(s.out, Println(add_line("realloc", to_realloc,
                                                    get_heap_bytes(l)))))
          : to_realloc \in Range(Get(s.dict, get_heap_address(l))) }

\* print_heap_call, the realloc branch: every outcome of random.choice.
ReallocCall(d, ids, out, l) ==
    LET s == SynthesizeAlloc(d, ids, out, get_heap_address(l))
    IN  { TState(s.dict, s.ids,
                 Append(s.out, Println(add_line("realloc", to_realloc, get_heap_bytes(l)))))
          : to_realloc \in Range(Get(s.dict, get_heap_address(l))) }

\* AllocCall giving the new allocation the id of the one before it.
AllocCall_StaleId(d, ids, out, l) ==
    LET heap_address == get_heap_address(l)
        d1 == IF heap_address \notin Keys(d) THEN SetItem(d, heap_address, <<>>) ELSE d
        id == IF ids > 0 THEN ids - 1 ELSE ids
    IN  TState(SetItem(d1, heap_address, Append(Get(d1, heap_address), id)),
               ids + 1,
               Append(out, Println(add_line("alloc", id, get_heap_bytes(l)))))

\* print_heap_call, the alloc branch
AllocCall(d, ids, out, l) ==
    LET heap_address == get_heap_address(l)
        d1 == IF heap_address \notin Keys(d) THEN SetItem(d, heap_address, <<>>) ELSE d
    IN  TState(SetItem(d1, heap_address, Append(Get(d1, heap_address), ids)),
               ids + 1,
               Append(out, Println(add_line("alloc", ids, get_heap_bytes(l)))))

\* print_heap_call treating a free of an unknown address as it treats a
\* realloc of one: an alloc line is made up for it before the free line.
print_heap_call_StaleFree(l, d, ids, out) ==
    LET heap_address == get_heap_address(l)
        call == get_heap_call(l)
    IN  IF heap_address = None \/ heap_address = 0
        THEN {TState(d, ids, out)}
        ELSE IF call = "free"
        THEN LET s == SynthesizeAlloc(d, ids, out, heap_address)
             IN  {FreeCall(s.dict, s.ids, s.out, heap_address)}
        ELSE IF call = "realloc"
        THEN ReallocCall(d, ids, out, l)
        ELSE IF call = "alloc"
        THEN {AllocCall(d, ids, out, l)}
        ELSE {TState(d, ids, out)}

\* print_heap_call(line, memory_dict, memory_ids): the set of states it can
\* leave (one, but for a realloc on an address with several live ids).
print_heap_call(l, d, ids, out) ==
    LET heap_address == get_heap_address(l)
        call == get_heap_call(l)
    IN  IF heap_address = None \/ heap_address = 0
        THEN {TState(d, ids, out)}
        ELSE IF call = "free" /\ heap_address \in Keys(d)
        THEN {FreeCall(d, ids, out, heap_address)}
        ELSE IF call = "realloc"
        THEN ReallocCall(d, ids, out, l)
        ELSE IF call = "alloc"
        THEN {AllocCall(d, ids, out, l)}
        ELSE {TState(d, ids, out)}

\* FlushLines freeing only the newest id of every address.
FlushLines_LastOnly(d) ==
    [idx \in 1..Len(d) |->
        IF idx = Len(d)
        THEN PrintNoEnd(add_line("free", Last(d[idx].val), 0))
        ELSE Println(add_line("free", Last(d[idx].val), 0))]

\* parse_file_heap_use after the last input line: a free line for every id
\* of every list, in dict order, the last one printed with end=''.
FlushLines(d) ==
    Concat([idx \in 1..Len(d) |->
              [i \in 1..Len(d[idx].val) |->
                 IF idx = Len(d) /\ i = Len(d[idx].val)
                 THEN PrintNoEnd(add_line("free", d[idx].val[i], 0))
                 ELSE Println(add_line("free", d[idx].val[i], 0))]])

NoLine == [addr |-> None, call |-> "None", bytes |-> None]

InitParse ==
    /\ output = <<>>
    /\ memory_dict = <<>>
    /\ memory_ids = 0
    /\ line = NoLine
    /\ pc = "reading"
    /\ before = TState(<<>>, 0, <<>>)
    /\ twin = TState(<<>>, 0, <<>>)
    /\ shared = FALSE
    /\ id_byte_map = <<>>
    /\ alloc_ids = 0
    /\ free_ids = 0
    /\ realloc_ids = 0
    /\ arg = [verb |-> "none", range |-> <<None, None>>, num |-> -2]
    /\ gbefore = [map |-> <<>>, alloc_ids |-> 0, free_ids |-> 0, realloc_ids |-> 0,
                  out |-> <<>>, status |-> "ok"]
    /\ nargs = 0
    /\ gpc = "off"
    /\ vfile = <<>>
    /\ vidx = 0
    /\ memory_request_dict = <<>>
    /\ verr = NoError

\* One iteration of parse_file_heap_use's loop over the trace. A trace can be
\* of any length; the model stops reading once MaxLines lines are printed.
PrintHeapCall(l) ==
    /\ pc = "reading"
    /\ Len(output) < MaxLines
    /\ \E s \in print_heap_call(l, memory_dict, memory_ids, output) :
          /\ memory_dict' = s.dict
          /\ memory_ids' = s.ids
          /\ output' = s.out
    /\ line' = l
    /\ before' = TState(memory_dict, memory_ids, output)
    /\ UNCHANGED <<pc, twin, shared, gvars, vvars>>

\* The end of the trace: the remaining ids are freed.
Flush ==
    /\ pc = "reading"
    /\ output' = output \o FlushLines(memory_dict)
    /\ pc' = "done"
    /\ before' = TState(memory_dict, memory_ids, output)
    /\ UNCHANGED <<memory_dict, memory_ids, line, twin, shared, gvars, vvars>>

NextParse ==
    \/ \E l \in Lines : PrintHeapCall(l)
    \/ Flush

SpecParse == InitParse /\ [][NextParse]_vars

\* Two runs of parse_file_heap_use over one trace: both read the line l, and
\* each makes its own random choice.
PrintHeapCallTwice(l) ==
    /\ pc = "reading"
    /\ Len(output) < MaxLines
    /\ \E s \in print_heap_call(l, memory_dict, memory_ids, output) :
          /\ memory_dict' = s.dict
          /\ memory_ids' = s.ids
          /\ output' = s.out
    /\ twin' \in print_heap_call(l, twin.dict, twin.ids, twin.out)
    /\ line' = l
    /\ before' = TState(memory_dict, memory_ids, output)
    /\ UNCHANGED <<pc, shared, gvars, vvars>>

\* The end of the trace in both runs.
FlushTwice ==
    /\ pc = "reading"
    /\ output' = output \o FlushLines(memory_dict)
    /\ twin' = TState(twin.dict, twin.ids, twin.out \o FlushLines(twin.dict))
    /\ pc' = "done"
    /\ before' = TState(memory_dict, memory_ids, output)
    /\ UNCHANGED <<memory_dict, memory_ids, line, shared, gvars, vvars>>

NextTwice ==
    \/ \E l \in Lines : PrintHeapCallTwice(l)
    \/ FlushTwice

SpecTwice == InitParse /\ [][NextTwice]_vars

----------------------------------------------------------------------------
\* The draft of the translator, trace_parsing.py.

\* DraftFreeCall leaving the address and its ids in the dict.
DraftFreeCall_NoPop(d, ids, out, heap_address) ==
    LET id_list == Get(d, heap_address)
        to_del == id_list[Len(id_list)]
    IN  TState(d, ids, Append(out, Println(add_line("free", to_del, 0))))

\* The draft's free of an address of the dict: the last id of the list is
\* printed and the address is popped with its whole list.
DraftFreeCall(d, ids, out, heap_address) ==
    LET id_list == Get(d, heap_address)
        to_del == id_list[Len(id_list)]
    IN  TState(Pop(d, heap_address), ids,
               Append(out, Println(add_line("free", to_del, 0))))

\* The draft's realloc of an address of the dict: every outcome of
\* random.choice.
DraftReallocCall(d, ids, out, l) ==
    { TState(d, ids,
             Append(out, Println(add_line("realloc", to_realloc, get_heap_bytes(l)))))
      : to_realloc \in Range(Get(d, get_heap_address(l))) }

\* The draft's alloc of an address of the dict: the next id is appended to
\* the address's list.
DraftAllocCall(d, ids, out, l) ==
    LET heap_address == get_heap_address(l)
    IN  TState(SetItem(d, heap_address, Append(Get(d, heap_address), ids)),
               ids + 1,
               Append(out, Println(add_line("alloc", ids, get_heap_bytes(l)))))

\* The draft's realloc of an address that is not in the dict: an alloc line
\* of 8 bytes and the realloc line, both for the next id.
DraftNewRealloc(d, ids, out, l) ==
    TState(SetItem(d, get_heap_address(l), <<ids>>),
           ids + 1,
           out \o <<Println(add_line("alloc", ids, 8)),
                    Println(add_line("realloc", ids, get_heap_bytes(l)))>>)

\* The draft's alloc of an address that is not in the dict.
DraftNewAlloc(d, ids, out, l) ==
    TState(SetItem(d, get_heap_address(l), <<ids>>),
           ids + 1,
           Append(out, Println(add_line("alloc", ids, get_heap_bytes(l)))))

\* The body of the loop of the draft's parse_file_heap_use for one line: the
\* set of states it can leave.
draft_heap_call(l, d, ids, out) ==
    LET heap_address == get_heap_address(l)
        call == get_heap_call(l)
    IN  IF heap_address # None /\ heap_address # 0 /\ heap_address \in Keys(d)
        THEN IF call = "free"
             THEN {DraftFreeCall(d, ids, out, heap_address)}
             ELSE IF call = "realloc"
             THEN DraftReallocCall(d, ids, out, l)
             ELSE IF call = "alloc"
             THEN {DraftAllocCall(d, ids, out, l)}
             ELSE {TState(d, ids, out)}
        ELSE IF heap_address # None /\ heap_address # 0
        THEN IF call = "realloc"
             THEN {DraftNewRealloc(d, ids, out, l)}
             ELSE IF call = "alloc"
             THEN {DraftNewAlloc(d, ids, out, l)}
             ELSE {TState(d, ids, out)}
        ELSE {TState(d, ids, out)}

\* The draft's frees after the last input line: a free line for every id of
\* every list, in dict order, the last one printed with end=''.
DraftFlushLines(d) ==
    Concat([idx \in 1..Len(d) |->
              [i \in 1..Len(d[idx].val) |->
                 IF idx = Len(d) /\ i = Len(d[idx].val)
                 THEN PrintNoEnd(add_line("free", d[idx].val[i], 0))
                 ELSE Println(add_line("free", d[idx].val[i], 0))]])

\* The translator and its draft read the line l of one trace. `shared`
\* records an alloc for an address that has a live id.
ReadInBoth(l) ==
    /\ pc = "reading"
    /\ Len(output) < MaxLines
    /\ \E s \in print_heap_call(l, memory_dict, memory_ids, output) :
          /\ memory_dict' = s.dict
          /\ memory_ids' = s.ids
          /\ output' = s.out
    /\ twin' \in draft_heap_call(l, twin.dict, twin.ids, twin.out)
    /\ shared' = (shared \/ ( /\ get_heap_call(l) = "alloc"
                              /\ get_heap_address(l) \in Keys(memory_dict) ))
    /\ line' = l
    /\ before' = TState(memory_dict, memory_ids, output)
    /\ UNCHANGED <<pc, gvars, vvars>>

\* The end of the trace in the translator and in its draft.
FlushInBoth ==
    /\ pc = "reading"
    /\ output' = output \o FlushLines(memory_dict)
    /\ twin' = TState(twin.dict, twin.ids, twin.out \o DraftFlushLines(twin.dict))
    /\ pc' = "done"
    /\ before' = TState(memory_dict, memory_ids, output)
    /\ UNCHANGED <<memory_dict, memory_ids, line, shared, gvars, vvars>>

NextDraft ==
    \/ \E l \in Lines : ReadInBoth(l)
    \/ FlushInBoth

SpecDraft == InitParse /\ [][NextDraft]_vars

---------------------------------------------------------------------------
\* The script validator.

\* The messages of validate_script's three ValueErrors.
MsgRealloc == "Did not properly add alloc before incoming realloc."

MsgFree == "Free request for memory id not in the script."

MsgAlloc == "Two allocations with same memory id should not be possible."

ValueError(idx, msg) == [line |-> idx + 1, msg |-> msg]

\* What the file iteration yields: the token list line.split() makes of each
\* line. Only the last line of a file written here lacks its newline, so no
\* two printed lines run together.
ReadLines(file) == [i \in 1..Len(file) |-> file[i].text]

VState(d, err) == [dict |-> d, err |-> err]

\* FirstRequest with the free test lost: a free of an unknown id is recorded.
FirstRequest_FreeRecorded(d, request_type, memory_id, idx) ==
    IF request_type = "r"
    THEN VState(d, ValueError(idx, MsgRealloc))
    ELSE VState(SetItem(d, memory_id, request_type), NoError)

\* FirstRequest with the record of a first alloc lost.
FirstRequest_NoRecord(d, request_type, memory_id, idx) ==
    IF request_type = "r"
    THEN VState(d, ValueError(idx, MsgRealloc))
    ELSE IF request_type = "f"
    THEN VState(d, ValueError(idx, MsgFree))
    ELSE VState(d, NoError)

\* validate_script, a request for an id that is not in the dict: a realloc
\* and a free raise, anything else is recorded.
FirstRequest(d, request_type, memory_id, idx) ==
    IF request_type = "r"
    THEN VState(d, ValueError(idx, MsgRealloc))
    ELSE IF request_type = "f"
    THEN VState(d, ValueError(idx, MsgFree))
    ELSE VState(SetItem(d, memory_id, request_type), NoError)

\* LaterRequest keeping the last request of an id instead of its first.
LaterRequest_KeepsLast(d, request_type, memory_id, idx) ==
    IF request_type = "a" /\ Get(d, memory_id) = "a"
    THEN VState(d, ValueError(idx, MsgAlloc))
    ELSE IF request_type = "f"
    THEN VState(Pop(d, memory_id), NoError)
    ELSE VState(SetItem(d, memory_id, request_type), NoError)

\* LaterRequest with the pop of a freed id lost.
LaterRequest_NoPop(d, request_type, memory_id, idx) ==
    IF request_type = "a" /\ Get(d, memory_id) = "a"
    THEN VState(d, ValueError(idx, MsgAlloc))
    ELSE VState(d, NoError)

\* validate_script, a request for an id that is in the dict: a second alloc
\* raises, a free pops the id, a realloc leaves the record as it is.
LaterRequest(d, request_type, memory_id, idx) ==
    IF request_type = "a" /\ Get(d, memory_id) = "a"
    THEN VState(d, ValueError(idx, MsgAlloc))
    ELSE IF request_type = "f"
    THEN VState(Pop(d, memory_id), NoError)
    ELSE VState(d, NoError)

\* The body of validate_script's loop for the line at 0-based index idx:
\* the dict it leaves and the error it raises (NoError when it raises none).
ValidateLine(d, line_lst, idx) ==
    LET request_type == line_lst[1]
        memory_id == line_lst[2]
    IN  IF memory_id \notin Keys(d)
        THEN FirstRequest(d, request_type, memory_id, idx)
        ELSE LaterRequest(d, request_type, memory_id, idx)

RECURSIVE ValidateFrom(_, _, _)
\* validate_script's loop from the line at index idx on: it ends at the
\* first error or at the end of the file.
ValidateFrom(lines, idx, d) ==
    IF idx >= Len(lines)
    THEN [dict |-> d, err |-> NoError, read |-> idx]
    ELSE LET s == ValidateLine(d, lines[idx + 1], idx)
         IN  IF s.err # NoError
             THEN [dict |-> s.dict, err |-> s.err, read |-> idx + 1]
             ELSE ValidateFrom(lines, idx + 1, s.dict)

\* validate_script(file): the dict and the error it ends with, and the
\* number of lines it read.
validate_script(file) == ValidateFrom(ReadLines(file), 0, <<>>)

\* The script lines a file of a, r and f requests is made of.
ScriptLines ==
    {Println(add_line(c, id, SomeBytes)) : c \in Heap_Call, id \in 0..MaxId}

\* The files of at most MaxScript lines.
Scripts == UNION {[1..n -> ScriptLines] : n \in 0..MaxScript}

InitValidate ==
    /\ vfile \in Scripts
    /\ vidx = 0
    /\ memory_request_dict = <<>>
    /\ verr = NoError
    /\ output = <<>>
    /\ memory_dict = <<>>
    /\ memory_ids = 0
    /\ line = NoLine
    /\ pc = "off"
    /\ before = TState(<<>>, 0, <<>>)
    /\ twin = TState(<<>>, 0, <<>>)
    /\ shared = FALSE
    /\ id_byte_map = <<>>
    /\ alloc_ids = 0
    /\ free_ids = 0
    /\ realloc_ids = 0
    /\ arg = [verb |-> "none", range |-> <<None, None>>, num |-> -2]
    /\ gbefore = [map |-> <<>>, alloc_ids |-> 0, free_ids |-> 0, realloc_ids |-> 0,
                  out |-> <<>>, status |-> "ok"]
    /\ nargs = 0
    /\ gpc = "off"

\* One iteration of validate_script's loop: the next line of the file.
ValidateNextLine ==
    /\ verr = NoError
    /\ vidx < Len(vfile)
    /\ LET s == ValidateLine(memory_request_dict, ReadLines(vfile)[vidx + 1], vidx)
       IN  /\ memory_request_dict' = s.dict
           /\ verr' = s.err
    /\ vidx' = vidx + 1
    /\ UNCHANGED <<vfile, output, tvars, gvars>>

NextValidate == ValidateNextLine

SpecValidate == InitValidate /\ [][NextValidate]_vars

---------------------------------------------------------------------------
\* The pattern generator.

ALL_IDS == -2

\* A directive of the argument list: its verb, the byte range written in
\* parentheses after it (<<size, None>> for a single size, NoRange when there
\* are no parentheses) and the count that follows it (ALL_IDS when none
\* does). The count token itself does not start with '-': the loop of
\* generate_file_heap_use passes over it.
NoRange == <<None, None>>

Counts == {ALL_IDS} \cup 1..MaxCount

\* The directives of the model: alloc and realloc of one size with every
\* count, and with size 0, a size range or no size for a single request
\* (every request draws its size on its own, so a larger count only
\* multiplies the outcomes); free with every count; leak.
Directives ==
    [verb : {"alloc", "realloc"}, range : {<<SomeBytes, None>>}, num : Counts]
    \cup [verb : {"alloc", "realloc"}, range : {<<0, None>>, <<1, 2>>, NoRange}, num : {1}]
    \cup [verb : {"free"}, range : {NoRange}, num : Counts]
    \cup [verb : {"leak"}, range : {NoRange}, num : {ALL_IDS}]

NoDirective == [verb |-> "none", range |-> NoRange, num |-> ALL_IDS]

\* identify_call without its leak branch
identify_call_NoLeak(d) ==
    CASE d.verb = "alloc" -> Print_Call.alloc
      [] d.verb = "realloc" -> Print_Call.realloc
      [] d.verb = "free" -> Print_Call.free
      [] OTHER -> "None"

\* identify_call
identify_call(d) ==
    CASE d.verb = "alloc" -> Print_Call.alloc
      [] d.verb = "realloc" -> Print_Call.realloc
      [] d.verb = "free" -> Print_Call.free
      [] d.verb = "leak" -> Print_Call.leak
      [] OTHER -> "None"

\* random.randint(lo, hi): every value of a range that spans at most MaxSpan,
\* the two ends of a longer one
RandInt(lo, hi) == IF hi - lo <= MaxSpan THEN lo..hi ELSE {lo, hi}

\* identify_byte_range: the tuples it can return
identify_byte_range(d) ==
    IF d.range = NoRange
    THEN {<<lo, hi>> : lo \in RandInt(1, 50), hi \in RandInt(200, 1200)}
    ELSE {d.range}

\* identify_num_requests
identify_num_requests(d) == d.num

\* Python's truth value of a number or None
Truthy(x) == x # None /\ x # 0

\* RequestBytes drawing from lo..hi + 1
RequestBytes_PastHigh(byte_tuple) ==
    IF Truthy(byte_tuple[1]) /\ Truthy(byte_tuple[2])
    THEN RandInt(byte_tuple[1], byte_tuple[2] + 1)
    ELSE {byte_tuple[1]}

\* The sizes one request of a directive with this byte tuple can get.
RequestBytes(byte_tuple) ==
    IF Truthy(byte_tuple[1]) /\ Truthy(byte_tuple[2])
    THEN RandInt(byte_tuple[1], byte_tuple[2])
    ELSE {byte_tuple[1]}

\* range(n) of Python as the number of iterations
Iterations(n) == IF n > 0 THEN n ELSE 0

\* The state the generator functions work on; status is "ok" or what ended
\* the run ("ZeroDivisionError", or "hang" for a loop that never ends).
GState(m, a, f, r, out, status) ==
    [map |-> m, alloc_ids |-> a, free_ids |-> f, realloc_ids |-> r,
     out |-> out, status |-> status]

RECURSIVE FreeLoop_Stride1(_, _, _, _)
\* generate_frees' loop with a cursor that advances by one
FreeLoop_Stride1(n, m, f, out) ==
    IF n = 0 \/ f \notin Keys(m)
    THEN [map |-> m, free_ids |-> f, out |-> out]
    ELSE FreeLoop_Stride1(n - 1, Pop(m, f), f + 1,
                          Append(out, Println(<<Print_Call.free, f>>)))

RECURSIVE FreeLoop(_, _, _, _)
\* generate_frees, the loop with n iterations left
FreeLoop(n, m, f, out) ==
    IF n = 0 \/ f \notin Keys(m)
    THEN [map |-> m, free_ids |-> f, out |-> out]
    ELSE FreeLoop(n - 1, Pop(m, f), f + 2, Append(out, Println(<<Print_Call.free, f>>)))

\* generate_frees that prints its frees and leaves the ids in the map
generate_frees_NoPop(d, g) ==
    LET n == identify_num_requests(d)
        num_requests == IF n = ALL_IDS THEN Len(g.map) ELSE n
        s == FreeLoop(Iterations(num_requests - g.free_ids), g.map, g.free_ids, g.out)
    IN  {GState(g.map, g.alloc_ids, s.free_ids, g.realloc_ids, s.out, "ok")}

\* generate_frees
generate_frees(d, g) ==
    LET n == identify_num_requests(d)
        num_requests == IF n = ALL_IDS THEN Len(g.map) ELSE n
        s == FreeLoop(Iterations(num_requests - g.free_ids), g.map, g.free_ids, g.out)
    IN  {GState(s.map, g.alloc_ids, s.free_ids, g.realloc_ids, s.out, "ok")}

RECURSIVE AllocLoop(_, _, _, _)
\* generate_allocs, the loop over the sizes drawn for its requests
AllocLoop(sizes, m, a, out) ==
    IF sizes = <<>>
    THEN [map |-> m, alloc_ids |-> a, out |-> out]
    ELSE AllocLoop(Tail(sizes), SetItem(m, a, Head(sizes)), a + 1,
                   Append(out, Println(<<Print_Call.alloc, a, Head(sizes)>>)))

\* generate_allocs: one outcome for each byte tuple and each draw of sizes
generate_allocs(d, g) ==
    LET num_requests == identify_num_requests(d)
    IN  { LET s == AllocLoop(sizes, g.map, g.alloc_ids, g.out)
          IN  GState(s.map, s.alloc_ids, g.free_ids, g.realloc_ids, s.out, "ok")
          : sizes \in UNION { [1..Iterations(num_requests) -> RequestBytes(bt)]
                              : bt \in identify_byte_range(d) } }

RECURSIVE SkipGaps(_, _, _)
\* generate_reallocs, the inner while loop: the id it stops at, "hang" when it
\* never stops, "ZeroDivisionError" when the map is empty. After one step the
\* cursor is below len(id_byte_map) and from there it cycles through
\* 0..len-1, so len + 1 steps that find no live id will find none.
SkipGaps(r, m, steps) ==
    IF r \in Keys(m)
    THEN [status |-> "ok", realloc_ids |-> r]
    ELSE IF Len(m) = 0
    THEN [status |-> "ZeroDivisionError", realloc_ids |-> r]
    ELSE IF steps = 0
    THEN [status |-> "hang", realloc_ids |-> r]
    ELSE SkipGaps((r + 1) % Len(m), m, steps - 1)

RECURSIVE ReallocLoop_NoWrap(_, _, _, _)
\* generate_reallocs' loop advancing its cursor by one with no wrap
ReallocLoop_NoWrap(sizes, m, r, out) ==
    IF sizes = <<>>
    THEN [status |-> "ok", realloc_ids |-> r, out |-> out]
    ELSE LET k == SkipGaps(r, m, Len(m) + 1)
         IN  IF k.status # "ok"
             THEN [status |-> k.status, realloc_ids |-> k.realloc_ids, out |-> out]
             ELSE ReallocLoop_NoWrap(Tail(sizes), m, k.realloc_ids + 1,
                                     Append(out, Println(<<Print_Call.realloc,
                                                           k.realloc_ids, Head(sizes)>>)))

RECURSIVE ReallocLoop(_, _, _, _)
\* generate_reallocs, the loop over the sizes drawn for its requests
ReallocLoop(sizes, m, r, out) ==
    IF sizes = <<>>
    THEN [status |-> "ok", realloc_ids |-> r, out |-> out]
    ELSE LET k == SkipGaps(r, m, Len(m) + 1)
         IN  IF k.status # "ok"
             THEN [status |-> k.status, realloc_ids |-> k.realloc_ids, out |-> out]
             ELSE ReallocLoop(Tail(sizes), m, (k.realloc_ids + 1) % Len(m),
                              Append(out, Println(<<Print_Call.realloc, k.realloc_ids,
                                                    Head(sizes)>>)))

\* generate_reallocs writing the printed size back into the map
generate_reallocs_WritesBack(d, g) ==
    LET n == identify_num_requests(d)
        num_requests == IF n = ALL_IDS THEN Len(g.map) ELSE n
    IN  { LET s == ReallocLoop(sizes, g.map, g.realloc_ids, g.out)
              new == SubSeq(s.out, Len(g.out) + 1, Len(s.out))
          IN  GState([k \in 1..Len(g.map) |->
                         IF \E i \in 1..Len(new) : new[i].text[2] = g.map[k].key
                         THEN [key |-> g.map[k].key,
                               val |-> new[CHOOSE i \in 1..Len(new) :
                                              new[i].text[2] = g.map[k].key].text[3]]
                         ELSE g.map[k]],
                     g.alloc_ids, g.free_ids, s.realloc_ids, s.out, s.status)
          : sizes \in UNION { [1..Iterations(num_requests) -> RequestBytes(bt)]
                              : bt \in identify_byte_range(d) } }

\* generate_reallocs: one outcome for each byte tuple and each draw of sizes
generate_reallocs(d, g) ==
    LET n == identify_num_requests(d)
        num_requests == IF n = ALL_IDS THEN Len(g.map) ELSE n
    IN  { LET s == ReallocLoop(sizes, g.map, g.realloc_ids, g.out)
          IN  GState(g.map, g.alloc_ids, g.free_ids, s.realloc_ids, s.out, s.status)
          : sizes \in UNION { [1..Iterations(num_requests) -> RequestBytes(bt)]
                              : bt \in identify_byte_range(d) } }

\* The final frees walking the map from its last id to its first.
CleanupLines_Reversed(m) ==
    [idx \in 1..Len(m) |->
        IF idx = Len(m)
        THEN PrintNoEnd(<<Print_Call.free, m[Len(m) + 1 - idx].key>>)
        ELSE Println(<<Print_Call.free, m[Len(m) + 1 - idx].key>>)]

\* generate_file_heap_use, the final frees of every id left in the map, the
\* last one printed with end=''
CleanupLines(m) ==
    [idx \in 1..Len(m) |->
        IF idx = Len(m)
        THEN PrintNoEnd(<<Print_Call.free, m[idx].key>>)
        ELSE Println(<<Print_Call.free, m[idx].key>>)]

\* The generator's state now.
GNow == GState(id_byte_map, alloc_ids, free_ids, realloc_ids, output, "ok")

InitGenerate ==
    /\ output = <<>>
    /\ id_byte_map = <<>>
    /\ alloc_ids = 0
    /\ free_ids = 0
    /\ realloc_ids = 0
    /\ arg = NoDirective
    /\ nargs = 0
    /\ gpc = "args"
    /\ gbefore = GState(<<>>, 0, 0, 0, <<>>, "ok")
    /\ memory_dict = <<>>
    /\ memory_ids = 0
    /\ line = NoLine
    /\ pc = "off"
    /\ before = TState(<<>>, 0, <<>>)
    /\ twin = TState(<<>>, 0, <<>>)
    /\ shared = FALSE
    /\ vfile = <<>>
    /\ vidx = 0
    /\ memory_request_dict = <<>>
    /\ verr = NoError

\* One directive of the loop of generate_file_heap_use.
GenerateArg(d) ==
    /\ gpc = "args"
    /\ nargs < MaxArgs
    /\ \E s \in CASE identify_call(d) = Print_Call.free -> generate_frees(d, GNow)
                  [] identify_call(d) = Print_Call.alloc -> generate_allocs(d, GNow)
                  [] identify_call(d) = Print_Call.realloc -> generate_reallocs(d, GNow)
                  [] OTHER -> {GNow} :
          /\ id_byte_map' = s.map
          /\ alloc_ids' = s.alloc_ids
          /\ free_ids' = s.free_ids
          /\ realloc_ids' = s.realloc_ids
          /\ output' = s.out
          /\ gpc' = IF identify_call(d) = Print_Call.leak THEN "leak"
                    ELSE IF s.status = "ok" THEN "args"
                    ELSE s.status
    /\ arg' = d
    /\ nargs' = nargs + 1
    /\ gbefore' = GNow
    /\ UNCHANGED <<tvars, vvars>>

\* The end of the argument list: the cleanup.
Cleanup ==
    /\ gpc = "args"
    /\ output' = output \o CleanupLines(id_byte_map)
    /\ gpc' = "done"
    /\ gbefore' = GNow
    /\ UNCHANGED <<id_byte_map, alloc_ids, free_ids, realloc_ids, arg, nargs,
                   tvars, vvars>>

NextGenerate ==
    \/ \E d \in Directives : GenerateArg(d)
    \/ Cleanup

SpecGenerate == InitGenerate /\ [][NextGenerate]_vars

\* The directives with explicit sizes: alloc and realloc with a size range
\* (one with an interior value, one of a single value, one that starts at 0)
\* or a single size (one of them 0), for one request, two, or no count.
SizedDirectives ==
    [verb : {"alloc", "realloc"},
     range : {<<1, 3>>, <<2, 2>>, <<0, 3>>, <<SomeBytes, None>>, <<0, None>>},
     num : {ALL_IDS, 1, 2}]

\* One directive with explicit sizes.
GenerateSized ==
    /\ nargs < MaxSizedArgs
    /\ \E d \in SizedDirectives : GenerateArg(d)

NextSizes ==
    \/ GenerateSized
    \/ Cleanup

SpecSizes == InitGenerate /\ [][NextSizes]_vars

---------------------------------------------------------------------------
\* main: the script is printed into the output file, and validate_script
\* reads the file back inside the `with` block that holds it open for
\* writing, before it is flushed or closed.

\* What a printed line puts into the file's write buffer, counted in units:
\* one for each token and one for the newline.
LineUnits(l) == Len(l.text) + (IF l.end = "\n" THEN 1 ELSE 0)

RECURSIVE TotalUnits(_)
TotalUnits(out) ==
    IF out = <<>> THEN 0 ELSE LineUnits(Head(out)) + TotalUnits(Tail(out))

RECURSIVE FilePrefix(_, _)
\* The lines a file holds that got the first k units of what was printed:
\* the last of them may be cut, with its newline or some of its tokens
\* missing.
FilePrefix(out, k) ==
    IF out = <<>> \/ k = 0
    THEN <<>>
    ELSE IF k >= LineUnits(Head(out))
    THEN <<Head(out)>> \o FilePrefix(Tail(out), k - LineUnits(Head(out)))
    ELSE <<[text |-> SubSeq(Head(out).text, 1, k), end |-> ""]>>

\* How much of t printed units the file can hold while it is still open for
\* writing: nothing until the buffer of BufferSize units has overflowed, and
\* after that all but a remainder that the buffer can hold.
PersistedUnits(t) ==
    IF t <= BufferSize THEN {0} ELSE {k \in 1..t : t - k <= BufferSize}

\* validate_script on a file whose last line may be cut: a line of a single
\* token raises IndexError at line_lst[1].
ValidateFile(file) ==
    IF file # <<>> /\ Len(Last(file).text) < 2
    THEN LET v == validate_script(Front(file))
         IN  IF v.err # NoError
             THEN v
             ELSE [dict |-> v.dict, err |-> [line |-> Len(file), msg |-> "IndexError"],
                   read |-> Len(file)]
    ELSE validate_script(file)

\* validate_script(args[...]) as main calls it, and the message after it:
\* the file read is what has been persisted so far.
ReadBack(mode) ==
    \E k \in PersistedUnits(TotalUnits(output)) :
        LET v == ValidateFile(FilePrefix(output, k))
        IN  /\ vfile' = FilePrefix(output, k)
            /\ memory_request_dict' = v.dict
            /\ verr' = v.err
            /\ vidx' = v.read
            /\ mode' = IF v.err = NoError THEN "success" ELSE "raised"

InitMain == InitParse \/ InitGenerate

\* main, -parse: validate_script after parse_file_heap_use
ParseValidate ==
    /\ pc = "done"
    /\ ReadBack(pc)
    /\ UNCHANGED <<output, memory_dict, memory_ids, line, before, twin, shared, gvars>>

\* main, -generate: validate_script after generate_file_heap_use
GenerateValidate ==
    /\ gpc \in {"done", "leak"}
    /\ ReadBack(gpc)
    /\ UNCHANGED <<output, id_byte_map, alloc_ids, free_ids, realloc_ids, arg, nargs,
                   gbefore, tvars>>

NextMain ==
    \/ NextParse
    \/ NextGenerate
    \/ ParseValidate
    \/ GenerateValidate

SpecMain == InitMain /\ [][NextMain]_vars

---------------------------------------------------------------------------
\* Properties of the validator (SpecValidate).

\* The file being validated, as token lists.
VLines == ReadLines(vfile)

\* id is live at line n of script s: an earlier line allocates it and no line
\* in between frees it.
LiveAt(s, n, id) ==
    \E i \in 1..(n - 1) :
        /\ s[i][1] = "a" /\ s[i][2] = id
        /\ \A j \in (i + 1)..(n - 1) : ~(s[j][1] = "f" /\ s[j][2] = id)

\* line n is a realloc or a free of an id that is not live
BadUse(s, n) == s[n][1] \in {"r", "f"} /\ ~LiveAt(s, n, s[n][2])

\* line n allocates an id that is live
BadAlloc(s, n) == s[n][1] = "a" /\ LiveAt(s, n, s[n][2])

\* the validator read the whole file and raised nothing
Accepted == verr = NoError /\ vidx = Len(vfile)

\* The requests for id in s, in script order.
OpsOf(s, id) ==
    LET sel == SelectSeq(s, LAMBDA l : l[2] = id)
    IN  [k \in 1..Len(sel) |-> sel[k][1]]

IdsOf(s) == {s[i][2] : i \in 1..Len(s)}

\* ops is a sequence of lifetimes alloc, realloc*, free, the last of which
\* may still be open.
Lifetimes(ops) ==
    /\ ops # <<>> => ops[1] = "a"
    /\ \A k \in 2..Len(ops) :
          /\ ops[k] = "a" => ops[k - 1] = "f"
          /\ ops[k] \in {"r", "f"} => ops[k - 1] \in {"a", "r"}

\* C3: a consumed r or f line whose id is not live at it is the last line the
\* validator consumed, and the ValueError raised carries its 1-based number
\* (so the first such line reached ends the validation).
C3_RejectsDeadUse ==
    \A n \in 1..vidx :
        BadUse(VLines, n) =>
            /\ vidx = n
            /\ verr = ValueError(n - 1, IF VLines[n][1] = "r" THEN MsgRealloc ELSE MsgFree)

\* C3 witness: a free of an id that was allocated and freed before is
\* rejected at its line (line 3 or later) with lines of the file left unread.
C3_Witness ==
    /\ verr # NoError /\ verr.msg = MsgFree
    /\ verr.line = vidx /\ vidx >= 3 /\ vidx < Len(vfile)
    /\ \E i, j \in 1..(vidx - 1) :
          /\ i < j
          /\ VLines[i] = <<"a", VLines[vidx][2], SomeBytes>>
          /\ VLines[j] = <<"f", VLines[vidx][2]>>

\* C4: a consumed a line whose id is live at it is the last line consumed and
\* raises the double allocation error with its 1-based number, whatever r
\* lines came in between.
C4_RejectsDoubleAlloc ==
    \A n \in 1..vidx :
        BadAlloc(VLines, n) =>
            /\ vidx = n
            /\ verr = ValueError(n - 1, MsgAlloc)

\* C4 witness: a, r, a on one id is rejected at the second a.
C4_Witness ==
    /\ vidx >= 3
    /\ verr = ValueError(vidx - 1, MsgAlloc)
    /\ VLines[vidx - 1][1] = "r" /\ VLines[vidx - 1][2] = VLines[vidx][2]
    /\ VLines[vidx - 2][1] = "a" /\ VLines[vidx - 2][2] = VLines[vidx][2]

\* C5 as stated: in an accepted script the requests of every id are closed
\* lifetimes alloc, realloc*, free (every allocated id is freed).
C5_AllLifetimesClosed ==
    Accepted =>
        \A id \in IdsOf(VLines) :
            /\ Lifetimes(OpsOf(VLines, id))
            /\ Last(OpsOf(VLines, id)) = "f"

\* C5 amended: in an accepted script the requests of every id are lifetimes
\* alloc, realloc*, free in a row, the last of which may lack its free.
C5_LifetimesWellFormed ==
    Accepted => \A id \in IdsOf(VLines) : Lifetimes(OpsOf(VLines, id))

\* C5 witness: an accepted script in which an id is allocated, reallocated,
\* freed and allocated again, and is still live at the end.
C5_Witness ==
    /\ Accepted
    /\ \E id \in IdsOf(VLines) : OpsOf(VLines, id) = <<"a", "r", "f", "a">>

\* C6: the record of an id is gone once its f line is consumed, and no line
\* of a later lifetime of an id (a line after an f line of that id) raises as
\* long as it allocates the id when it is not live or uses it when it is.
C6_IdReuse ==
    /\ (vidx >= 1 /\ verr = NoError /\ VLines[vidx][1] = "f")
          => VLines[vidx][2] \notin Keys(memory_request_dict)
    /\ \A n \in 1..vidx :
          ( /\ \E m \in 1..(n - 1) : VLines[m] = <<"f", VLines[n][2]>>
            /\ ~BadUse(VLines, n)
            /\ ~BadAlloc(VLines, n) )
          => /\ verr.line # n
             /\ (vidx = n /\ VLines[n][1] \in {"a", "r"})
                   => VLines[n][2] \in Keys(memory_request_dict)

\* C6 witness: two whole lifetimes of one id, the second with a realloc, are
\* accepted.
C6_Witness ==
    /\ Accepted
    /\ \E id \in IdsOf(VLines) : OpsOf(VLines, id) = <<"a", "f", "a", "r", "f">>

---------------------------------------------------------------------------
\* Properties of the translator (SpecParse).

\* The script printed so far, as token lists.
OutLines == ReadLines(output)

\* print_heap_call has processed `line`, and `before` is the state it found
\* (before the first line of the trace both are as good as a skipped line)
AfterCall == pc = "reading"

\* the lines `out` holds beyond the first n
LinesAfter(out, n) == SubSeq(out, n + 1, Len(out))

\* C1: once the trace is read and flushed the validator accepts the whole
\* script: every r and f line names an id with an earlier a line and no
\* earlier f line, and no id has two a lines.
C1_TranslatorScriptValid ==
    pc = "done" =>
        LET v == validate_script(output)
            s == OutLines
        IN  /\ v.err = NoError
            /\ v.read = Len(output)
            /\ \A n \in 1..Len(s) :
                  s[n][1] \in {"r", "f"} =>
                      /\ \E i \in 1..(n - 1) : s[i][1] = "a" /\ s[i][2] = s[n][2]
                      /\ \A j \in 1..(n - 1) : ~(s[j][1] = "f" /\ s[j][2] = s[n][2])
            /\ \A i, j \in 1..Len(s) :
                  (i < j /\ s[i][1] = "a" /\ s[j][1] = "a") => s[i][2] # s[j][2]

\* C1 witness: a finished script with a line of each kind, in which a free
\* was printed for a call and another by the flush.
C1_Witness ==
    /\ pc = "done"
    /\ \E n \in 1..Len(before.out) : before.out[n].text[1] = "f"
    /\ \E n \in 1..Len(before.out) : before.out[n].text[1] = "r"
    /\ Len(output) > Len(before.out)

\* C7, one free: a free of an address that is in the dict prints f for the
\* last id of its list, drops that id alone, and drops the address exactly
\* when the list is left empty.
C7_FreePopsLast ==
    (AfterCall /\ line.call = "free" /\ line.addr \in Keys(before.dict)) =>
        LET id_list == Get(before.dict, line.addr)
        IN  /\ output = Append(before.out, Println(<<"f", Last(id_list)>>))
            /\ memory_ids = before.ids
            /\ Len(id_list) > 1 =>
                  memory_dict =
                      [i \in 1..Len(before.dict) |->
                          IF before.dict[i].key = line.addr
                          THEN [key |-> line.addr, val |-> Front(id_list)]
                          ELSE before.dict[i]]
            /\ Len(id_list) = 1 =>
                  memory_dict = SelectSeq(before.dict, LAMBDA it : it.key # line.addr)
            /\ line.addr \in Keys(memory_dict) <=> Len(id_list) > 1

\* C7, two frees in a row of an address whose list ended with i, j: the
\* first printed f j and the second prints f i.
C7_SecondFree ==
    ( /\ AfterCall /\ line.call = "free" /\ line.addr \in Keys(before.dict)
      /\ Len(Get(before.dict, line.addr)) >= 2
      /\ line' = line /\ pc' = "reading" )
    => LET id_list == Get(before.dict, line.addr)
       IN  output' = before.out \o <<Println(<<"f", id_list[Len(id_list)]>>),
                                     Println(<<"f", id_list[Len(id_list) - 1]>>)>>

\* C7: frees are last in, first out.
C7_LifoFree == []C7_FreePopsLast /\ [][C7_SecondFree]_vars

\* C7 witness: a free of an address holding ids i, j has printed f j and
\* left the address with i.
C7_Witness ==
    /\ AfterCall /\ line.call = "free" /\ line.addr \in Keys(before.dict)
    /\ Len(Get(before.dict, line.addr)) = 2
    /\ Last(output).text = <<"f", Get(before.dict, line.addr)[2]>>
    /\ Get(memory_dict, line.addr) = <<Get(before.dict, line.addr)[1]>>

\* C8: a realloc of an address that is not in the dict prints a <newid> 8 and
\* then r <newid> <bytes>, newid being the next id, which no earlier line
\* carries; the address is then bound to [newid] and the next id is one more.
C8_SynthesizedAlloc ==
    ( /\ AfterCall /\ line.call = "realloc"
      /\ line.addr \in Addresses /\ line.addr \notin Keys(before.dict) ) =>
        /\ output = before.out \o <<Println(<<"a", before.ids, 8>>),
                                    Println(<<"r", before.ids, line.bytes>>)>>
        /\ \A n \in 1..Len(before.out) : before.out[n].text[2] # before.ids
        /\ memory_dict = Append(before.dict, [key |-> line.addr, val |-> <<before.ids>>])
        /\ memory_ids = before.ids + 1

\* C8 witness: such a realloc after other lines were printed.
C8_Witness ==
    /\ AfterCall /\ line.call = "realloc" /\ line.bytes = SomeBytes
    /\ line.addr \notin Keys(before.dict)
    /\ before.dict # <<>> /\ before.out # <<>>
    /\ Len(output) = Len(before.out) + 2

\* The ids of a dict's lists, address by address in dict order and oldest
\* first within an address.
LiveIds(d) == Concat([idx \in 1..Len(d) |-> d[idx].val])

\* C9: the flush prints one f line for each id that is live at the end of the
\* input, in dict order and list order, and nothing else; so every id with an
\* a line has exactly one f line in the finished script.
C9_FlushFreesLive ==
    pc = "done" =>
        LET s == OutLines
            live == LiveIds(before.dict)
        IN  /\ memory_dict = before.dict
            /\ SubSeq(output, 1, Len(before.out)) = before.out
            /\ ReadLines(LinesAfter(output, Len(before.out)))
                  = [k \in 1..Len(live) |-> <<"f", live[k]>>]
            /\ \A n \in 1..Len(s) :
                  s[n][1] = "a" =>
                      Cardinality({m \in 1..Len(s) : s[m] = <<"f", s[n][2]>>}) = 1

\* C9 witness: the flush of two addresses, the older one (not the smaller
\* one) holding two ids.
C9_Witness ==
    /\ pc = "done"
    /\ Len(memory_dict) = 2
    /\ memory_dict[1].key > memory_dict[2].key
    /\ Len(memory_dict[1].val) = 2
    /\ Len(output) = Len(before.out) + 3

\* C10: a line with no address or no known call, and a free of an address
\* that is not in the dict, print nothing and leave dict and next id alone.
C10_SkippedLines ==
    ( /\ AfterCall
      /\ \/ line.addr = None
         \/ line.call = "None"
         \/ line.call = "free" /\ line.addr \notin Keys(before.dict) ) =>
        /\ output = before.out
        /\ memory_dict = before.dict
        /\ memory_ids = before.ids

\* C10 witness: a free of an unknown address while another address is live.
C10_Witness ==
    /\ AfterCall /\ line.call = "free" /\ line.addr \in Addresses
    /\ line.addr \notin Keys(before.dict)
    /\ before.dict # <<>>
    /\ output = before.out /\ output # <<>>

\* C11: an alloc or realloc of a known address whose size is None prints
\* nothing, assigns no id and leaves dict and next id alone.
C11_NoSizeDropped ==
    ( /\ AfterCall
      /\ line.call \in {"alloc", "realloc"}
      /\ line.addr \in Addresses
      /\ line.bytes = None ) =>
        /\ output = before.out
        /\ memory_dict = before.dict
        /\ memory_ids = before.ids

---------------------------------------------------------------------------
\* Properties of the generator (SpecGenerate).

\* The script generated so far, as token lists.
GenLines == ReadLines(output)

\* generate_file_heap_use has returned: after its cleanup, or at -leak
Generated == gpc \in {"done", "leak"}

\* C2: when generation completes (with the cleanup or with -leak) the
\* validator accepts the whole script: every r and f line names an id that an
\* earlier line allocated and no line in between freed, and no id has two a
\* lines.
C2_GeneratorScriptValid ==
    Generated =>
        LET v == validate_script(output)
            s == GenLines
        IN  /\ v.err = NoError
            /\ v.read = Len(output)
            /\ \A n \in 1..Len(s) : ~BadUse(s, n)
            /\ \A i, j \in 1..Len(s) :
                  (i < j /\ s[i][1] = "a" /\ s[j][1] = "a") => s[i][2] # s[j][2]

\* C2 witness: a script completed by the cleanup in which the directives
\* printed allocs, a realloc and a free, and the cleanup freed what was left.
C2_Witness ==
    /\ gpc = "done"
    /\ \E n \in 1..Len(gbefore.out) : gbefore.out[n].text[1] = "f"
    /\ \E n \in 1..Len(gbefore.out) : gbefore.out[n].text[1] = "r"
    /\ Len(output) > Len(gbefore.out)
    /\ Last(output).text[1] = "f"

\* GenerateArg has just processed `arg` in the state `gbefore`
AfterArg == nargs > 0 /\ gpc # "done"

\* the ids of the f lines among `lines`, in order
FreedIds(lines) ==
    LET sel == SelectSeq(lines, LAMBDA l : l.text[1] = "f")
    IN  [k \in 1..Len(sel) |-> sel[k].text[2]]

\* the ids of the r lines among `lines`, in order
ReallocedIds(lines) ==
    LET sel == SelectSeq(lines, LAMBDA l : l.text[1] = "r")
    IN  [k \in 1..Len(sel) |-> sel[k].text[2]]

\* C12: no loop of the generator runs forever: in particular the skip-forward
\* search of a realloc directive reaches a live id whenever the map is not
\* empty.
C12_GenerationTerminates ==
    /\ gpc # "hang"
    /\ (AfterArg /\ arg.verb = "realloc" /\ gbefore.map # <<>>) =>
          gpc = "args"

\* C13: a free or realloc directive that asks for more than the live ids
\* support raises nothing and keeps the lines printed so far; a realloc with
\* an explicit positive count on an empty map and a free whose cursor id is
\* absent print nothing and the generator goes on.
C13_MismatchNoException ==
    (AfterArg /\ arg.verb \in {"free", "realloc"}) =>
        /\ gpc # "ZeroDivisionError"
        /\ SubSeq(output, 1, Len(gbefore.out)) = gbefore.out
        /\ ( \/ arg.verb = "realloc" /\ arg.num > 0 /\ gbefore.map = <<>>
             \/ arg.verb = "free" /\ gbefore.free_ids \notin Keys(gbefore.map) ) =>
              /\ gpc = "args"
              /\ output = gbefore.out
              /\ id_byte_map = gbefore.map

\* the even and the odd numbers below n, in increasing order
Evens(n) == [k \in 1..((n + 1) \div 2) |-> 2 * (k - 1)]

Odds(n) == [k \in 1..(n \div 2) |-> 2 * k - 1]

\* the first directive was `-alloc n`, the second `-free` with no count
AllocThenFreeAll ==
    /\ AfterArg /\ gpc = "args" /\ nargs = 2
    /\ arg.verb = "free" /\ arg.num = ALL_IDS
    /\ gbefore.alloc_ids > 0
    /\ Len(gbefore.out) = gbefore.alloc_ids

ResolvedCount(d, g) == IF d.num = ALL_IDS THEN Len(g.map) ELSE d.num

\* C15: a free directive with resolved count n prints f lines for the ids
\* free_ids, free_ids + 2, ... and ends only after n of them or when the id
\* at the cursor is not in the map, whatever free_ids was when it started.
C15_FreeCount ==
    (AfterArg /\ arg.verb = "free") =>
        LET n == ResolvedCount(arg, gbefore)
            new == LinesAfter(output, Len(gbefore.out))
        IN  /\ SubSeq(output, 1, Len(gbefore.out)) = gbefore.out
            /\ new = [k \in 1..Len(new) |->
                         Println(<<"f", gbefore.free_ids + 2 * (k - 1)>>)]
            /\ free_ids = gbefore.free_ids + 2 * Len(new)
            /\ \/ Len(new) = n
               \/ Len(new) < n /\ free_ids \notin Keys(id_byte_map)

\* the set of elements of a sequence
Elems(seq) == {seq[k] : k \in 1..Len(seq)}

\* C16: a realloc directive with no count that returns has printed one r
\* line for every id in the map, each id once, and nothing else, also when
\* frees left gaps in the ids.
C16_ReallocAllLive ==
    (AfterArg /\ gpc = "args" /\ arg.verb = "realloc" /\ arg.num = ALL_IDS) =>
        LET new == LinesAfter(output, Len(gbefore.out))
        IN  /\ SubSeq(output, 1, Len(gbefore.out)) = gbefore.out
            /\ Len(new) = Len(gbefore.map)
            /\ \A k \in 1..Len(new) : new[k].text[1] = "r"
            /\ Elems(ReallocedIds(new)) = Keys(gbefore.map)

\* the number of lines of script s (token lists) of kind c for id
CountOf(s, c, id) == Cardinality({n \in 1..Len(s) : s[n][1] = c /\ s[n][2] = id})

\* C17: with no -leak, the lines printed after the last directive are one f
\* line for each id of the map, in the map's order, which is increasing id,
\* and for no other id; in the whole script every id with an a line has
\* exactly one f line.
C17_CleanupFreesLive ==
    gpc = "done" =>
        LET new == LinesAfter(output, Len(gbefore.out))
            s == GenLines
        IN  /\ SubSeq(output, 1, Len(gbefore.out)) = gbefore.out
            /\ \A k \in 1..Len(new) : new[k].text[1] = "f" /\ Len(new[k].text) = 2
            /\ FreedIds(new) = [k \in 1..Len(id_byte_map) |-> id_byte_map[k].key]
            /\ \A j, k \in 1..Len(new) : j < k => new[j].text[2] < new[k].text[2]
            /\ \A n \in 1..Len(s) :
                  s[n][1] = "a" => CountOf(s, "f", s[n][2]) = 1

\* C17 witness: `-alloc 3` alone, completed by the cleanup's f 0, f 1, f 2.
C17_Witness ==
    /\ gpc = "done"
    /\ nargs = 1 /\ arg.verb = "alloc" /\ arg.num = 3
    /\ FreedIds(output) = <<0, 1, 2>>
    /\ Len(output) = 6

\* C18, the state at -leak: the directive prints nothing, no cleanup has
\* run, the lines and the map are as they were, and no id of the map has an
\* f line.
C18_LeakState ==
    arg.verb = "leak" =>
        /\ gpc = "leak"
        /\ output = gbefore.out
        /\ id_byte_map = gbefore.map
        /\ \A id \in Keys(id_byte_map) : CountOf(GenLines, "f", id) = 0
        /\ \A n \in 1..Len(output) : output[n].end = "\n"

\* C18: the generator stops at -leak: the state at -leak is as above and no
\* step follows it, so no later directive prints a line.
C18_LeakStops ==
    /\ []C18_LeakState
    /\ [][gpc = "leak" => vars' = vars]_vars

\* C18 witness: -leak after an alloc and a free, with ids left in the map.
C18_Witness ==
    /\ gpc = "leak"
    /\ id_byte_map # <<>>
    /\ FreedIds(output) # <<>>

\* the lines the directive `arg` printed
ArgLines == LinesAfter(output, Len(gbefore.out))

\* C19: every line an alloc or realloc directive with an explicit range
\* (low, high), low <= high, prints has low <= size <= high; with a single
\* size s every line it prints has size s.
C19_SizesInRange ==
    ( /\ AfterArg
      /\ arg.verb \in {"alloc", "realloc"}
      /\ arg.range # NoRange ) =>
        LET low == arg.range[1]
            high == arg.range[2]
        IN  \A k \in 1..Len(ArgLines) :
               /\ ArgLines[k].text[1] = identify_call(arg)
               /\ high # None /\ low <= high =>
                     low <= ArgLines[k].text[3] /\ ArgLines[k].text[3] <= high
               /\ high = None => ArgLines[k].text[3] = low

\* C19 witness: a realloc with range (1, 3) and no count that printed two
\* lines, one with the interior size 2 and one with the upper end 3.
C19_Witness ==
    /\ AfterArg /\ gpc = "args"
    /\ arg.verb = "realloc" /\ arg.range = <<1, 3>> /\ arg.num = ALL_IDS
    /\ Len(ArgLines) = 2
    /\ ArgLines[1].text[3] = 2
    /\ ArgLines[2].text[3] = 3

\* main has run the validator
Validated == pc \in {"success", "raised"} \/ gpc \in {"success", "raised"}

\* C20: in both modes the validator reads back every printed line, whole,
\* and the success message follows only its acceptance of that complete
\* script.
C20_ValidatesCompleteScript ==
    Validated =>
        /\ vfile = output
        /\ (pc = "success" \/ gpc = "success") =>
              /\ validate_script(output).err = NoError
              /\ vidx = Len(output)

\* main has the whole script: the translator or the generator has returned
ScriptDone == pc = "done" \/ gpc \in {"done", "leak"}

\* C21: every a line and every r line printed, by the translator or by the
\* generator, carries a size that is an integer >= 1.
C21_SizesPositive ==
    \A n \in 1..Len(output) :
        output[n].text[1] \in {"a", "r"} =>
            /\ output[n].text[3] # None
            /\ output[n].text[3] >= 1

\* the ids of the a lines among `lines`, in order
AllocatedIds(lines) ==
    LET sel == SelectSeq(lines, LAMBDA l : l.text[1] = "a")
    IN  [k \in 1..Len(sel) |-> sel[k].text[2]]

\* C22, the state: the k-th a line the translator printed, the made-up ones
\* included, carries id k - 1 (so no id is used twice, freed or not), and the
\* next id is the number of a lines printed.
C22_IdsInOrder ==
    pc \in {"reading", "done"} =>
        /\ AllocatedIds(output) = [k \in 1..Len(AllocatedIds(output)) |-> k - 1]
        /\ memory_ids = Len(AllocatedIds(output))

\* C22: the translator gives out the ids 0, 1, 2, ... in the order of its a
\* lines, and its next id never decreases.
C22_MonotonicIds ==
    /\ []C22_IdsInOrder
    /\ [][memory_ids' >= memory_ids]_vars

\* C22 witness: an id was freed and two more allocations followed it, one of
\* them made up for a realloc.
C22_Witness ==
    /\ pc = "reading"
    /\ memory_ids = 3
    /\ \E n \in 1..Len(output) :
          /\ output[n].text = <<"f", 0>>
          /\ \E i, j \in (n + 1)..Len(output) :
                /\ output[i].text[1] = "a" /\ output[i].text[2] = 1
                /\ output[j].text = <<"a", 2, 8>>

\* C23: a realloc of an address that is in the dict prints one r line and
\* nothing else, for an id of that address's list and with the size of the
\* call, and leaves the dict and the next id as they were.
C23_ReallocKeepsBinding ==
    (AfterCall /\ line.call = "realloc" /\ line.addr \in Keys(before.dict)) =>
        /\ Len(output) = Len(before.out) + 1
        /\ SubSeq(output, 1, Len(before.out)) = before.out
        /\ Last(output).text[1] = "r"
        /\ Last(output).text[2] \in Range(Get(before.dict, line.addr))
        /\ Last(output).text[3] = line.bytes
        /\ memory_dict = before.dict
        /\ memory_ids = before.ids

\* C23 witness: a realloc of an address with two live ids that picked the
\* older one.
C23_Witness ==
    /\ AfterCall /\ line.call = "realloc" /\ line.addr \in Keys(before.dict)
    /\ Len(Get(before.dict, line.addr)) = 2
    /\ Last(output).text[1] = "r"
    /\ Last(output).text[2] = Get(before.dict, line.addr)[1]
    /\ memory_dict = before.dict

\* how many times id occurs in the lists of the dict d
RECURSIVE LiveCount(_, _)
LiveCount(d, id) ==
    IF d = <<>>
    THEN 0
    ELSE Cardinality({k \in 1..Len(Head(d).val) : Head(d).val[k] = id})
         + LiveCount(Tail(d), id)

\* C28: between two lines of the trace every id given out so far is either
\* once in one address's list, or has one f line, and not both; and no
\* address of the dict has an empty list.
C28_LiveOrFreed ==
    pc = "reading" =>
        /\ \A id \in 0..(memory_ids - 1) :
              \/ LiveCount(memory_dict, id) = 1 /\ CountOf(OutLines, "f", id) = 0
              \/ LiveCount(memory_dict, id) = 0 /\ CountOf(OutLines, "f", id) = 1
        /\ \A k \in 1..Len(memory_dict) : memory_dict[k].val # <<>>

\* C28 witness: one address with two live ids, another whose only id was
\* freed and is gone from the dict.
C28_Witness ==
    /\ pc = "reading"
    /\ memory_ids = 3
    /\ Len(memory_dict) = 1
    /\ Len(memory_dict[1].val) = 2
    /\ \E id \in 0..2 : CountOf(OutLines, "f", id) = 1

\* C24: a realloc directive leaves the map as it was, keys and sizes, and
\* leaves alloc_ids and free_ids as they were; the size of an r line is not
\* written back.
C24_ReallocKeepsMap ==
    (AfterArg /\ arg.verb = "realloc") =>
        /\ id_byte_map = gbefore.map
        /\ alloc_ids = gbefore.alloc_ids
        /\ free_ids = gbefore.free_ids

\* C24 witness: a realloc that printed for id 0 a size other than the one
\* the map records for it, and moved the cursor.
C24_Witness ==
    /\ AfterArg /\ gpc = "args" /\ arg.verb = "realloc"
    /\ Len(ArgLines) = 1
    /\ ArgLines[1].text[2] = 0
    /\ ArgLines[1].text[3] # Get(id_byte_map, 0)
    /\ realloc_ids # gbefore.realloc_ids

\* the map holds every id of 0..m-1 and no other, m >= 1
NoGaps(m) == Len(m) >= 1 /\ Keys(m) = 0..(Len(m) - 1)

\* C25: when the map holds every id below m, m >= 1, and the realloc cursor
\* is c < m, a realloc directive with count n returns after printing n r
\* lines and nothing else, the i-th of them for the id (c + i) mod m, and
\* leaves the cursor at (c + n) mod m.
C25_ReallocWraps ==
    ( /\ AfterArg
      /\ arg.verb = "realloc"
      /\ NoGaps(gbefore.map)
      /\ gbefore.realloc_ids < Len(gbefore.map) ) =>
        LET m == Len(gbefore.map)
            c == gbefore.realloc_ids
            n == ResolvedCount(arg, gbefore)
        IN  /\ gpc = "args"
            /\ SubSeq(output, 1, Len(gbefore.out)) = gbefore.out
            /\ Len(ArgLines) = n
            /\ \A k \in 1..Len(ArgLines) :
                  /\ ArgLines[k].text[1] = "r"
                  /\ Len(ArgLines[k].text) = 3
                  /\ ArgLines[k].text[2] = (c + k - 1) % m
            /\ realloc_ids = (c + n) % m

\* C25 witness: three reallocs over the ids 0 and 1 from the cursor 1, which
\* wrap twice: r 1, r 0, r 1.
C25_Witness ==
    /\ AfterArg /\ gpc = "args" /\ arg.verb = "realloc"
    /\ NoGaps(gbefore.map) /\ Len(gbefore.map) = 2
    /\ gbefore.realloc_ids = 1
    /\ ReallocedIds(ArgLines) = <<1, 0, 1>>
    /\ realloc_ids = 0

\* C26: in the whole output of a translator run, and of a generator run,
\* that printed at least one line, every line but the last ends with a line
\* terminator and the last line does not, whichever branch printed it.
C26_LastLineUnterminated ==
    (ScriptDone /\ output # <<>>) =>
        /\ Last(output).end = ""
        /\ \A k \in 1..(Len(output) - 1) : output[k].end = "\n"

\* The reference lifecycle automaton, one line: a requires an id that is not
\* live and adds it, r requires a live id, f requires a live id and removes
\* it. A rejecting state stays rejecting.
RefStep(s, l) ==
    IF ~s.ok
    THEN s
    ELSE IF l[1] = "a"
    THEN IF l[2] \in s.live
         THEN [ok |-> FALSE, live |-> s.live]
         ELSE [ok |-> TRUE, live |-> s.live \cup {l[2]}]
    ELSE IF l[2] \notin s.live
    THEN [ok |-> FALSE, live |-> s.live]
    ELSE IF l[1] = "f"
    THEN [ok |-> TRUE, live |-> s.live \ {l[2]}]
    ELSE s

RECURSIVE RefRun(_, _)
\* The reference automaton after the first n lines of script s, from the
\* empty live set.
RefRun(s, n) ==
    IF n = 0
    THEN [ok |-> TRUE, live |-> {}]
    ELSE RefStep(RefRun(s, n - 1), s[n])

\* C27: the validator and the reference lifecycle automaton agree on every
\* script of a, r and f lines: after each line consumed the validator has
\* raised exactly when the automaton rejects the prefix, after every
\* accepted prefix the keys of memory_request_dict are the automaton's live
\* set, and once the validator has stopped it has accepted the script
\* exactly when the automaton accepts the whole of it.
C27_MatchesReference ==
    LET ref == RefRun(VLines, vidx)
    IN  /\ (verr = NoError) <=> ref.ok
        /\ verr = NoError => Keys(memory_request_dict) = ref.live
        /\ (verr # NoError \/ vidx = Len(vfile)) =>
              (Accepted <=> RefRun(VLines, Len(VLines)).ok)

\* C27 witness: an accepted script of five lines in which id 0 is
\* allocated, reallocated, freed and allocated again, and id 1 allocated.
C27_Witness ==
    /\ Accepted
    /\ Len(vfile) = 5
    /\ OpsOf(VLines, 0) = <<"a", "r", "f", "a">>
    /\ Keys(memory_request_dict) = {0, 1}
    /\ RefRun(VLines, 5).ok

\* C30: free_ids is even in every state of the generator, so the f lines
\* the free directives print are all for even ids: before the cleanup no
\* odd id has an f line (none at all when the list holds -leak), and after
\* it every odd id with an a line has exactly one f line, printed by the
\* cleanup.
C30_OddIdsFreedByCleanup ==
    /\ free_ids % 2 = 0
    /\ gpc # "done" =>
          \A n \in 1..Len(output) :
              output[n].text[1] = "f" => output[n].text[2] % 2 = 0
    /\ gpc = "done" =>
          \A n \in 1..Len(output) :
              /\ (output[n].text[1] = "f" /\ output[n].text[2] % 2 = 1) =>
                    n > Len(gbefore.out)
              /\ (output[n].text[1] = "a" /\ output[n].text[2] % 2 = 1) =>
                    CountOf(GenLines, "f", output[n].text[2]) = 1

\* C30 witness: `-alloc 3 -free` and the cleanup: the directive frees 0 and
\* 2, the cleanup frees 1.
C30_Witness ==
    /\ gpc = "done"
    /\ nargs = 2 /\ arg.verb = "free"
    /\ Len(gbefore.out) = 5
    /\ FreedIds(output) = <<0, 2, 1>>
    /\ free_ids = 4

\* the live ids the address of the line read last had before it was read
LiveAtAddress ==
    IF line.addr \in Keys(before.dict) THEN Get(before.dict, line.addr) ELSE <<>>

\* C29: two runs of the translator over one trace, whatever each chooses at
\* its reallocs, have the same memory_dict and the same memory_ids after
\* every input line and print scripts of the same length whose lines agree
\* on the request, on the size, on the terminator and, for a and f lines, on
\* the id; the one line that can differ is an r line, in its id, and it
\* differs only when its address had two or more live ids.
C29_RunsAgree ==
    /\ memory_dict = twin.dict
    /\ memory_ids = twin.ids
    /\ Len(output) = Len(twin.out)
    /\ \A n \in 1..Len(output) :
          /\ output[n].text[1] = twin.out[n].text[1]
          /\ Len(output[n].text) = Len(twin.out[n].text)
          /\ Len(output[n].text) = 3 => output[n].text[3] = twin.out[n].text[3]
          /\ output[n].end = twin.out[n].end
          /\ output[n].text[1] \in {"a", "f"} => output[n].text[2] = twin.out[n].text[2]
    /\ (pc = "reading" /\ Len(output) > Len(before.out)) =>
          \A n \in (Len(before.out) + 1)..Len(output) :
              output[n].text[2] # twin.out[n].text[2] =>
                  /\ line.call = "realloc"
                  /\ output[n].text[1] = "r"
                  /\ Len(LiveAtAddress) >= 2
    /\ pc = "done" =>
          LinesAfter(output, Len(before.out)) = LinesAfter(twin.out, Len(before.out))

\* C29 witness: the two runs have chosen different ids at a realloc and have
\* both read a further line and flushed.
C29_Witness ==
    /\ pc = "done"
    /\ Len(output) > Len(before.out)
    /\ \E n \in 1..(Len(before.out) - 1) :
          /\ output[n].text[1] = "r"
          /\ output[n].text[2] # twin.out[n].text[2]

\* the requests of the lines of a script, in order
OpsIn(out) == [n \in 1..Len(out) |-> out[n].text[1]]

\* C31: as long as the trace has held no alloc for an address that had a
\* live id, the draft of trace_parsing.py and the translator of parsing.py
\* have printed the same script, line for line and terminator for
\* terminator, the lines of the final flush included, and hold the same
\* memory_dict, in which every list has one id, and the same memory_ids.
C31_DraftAgrees ==
    ~shared =>
        /\ twin.out = output
        /\ twin.dict = memory_dict
        /\ twin.ids = memory_ids
        /\ \A k \in 1..Len(memory_dict) : Len(memory_dict[k].val) = 1

\* C31 witness: a trace with no alloc for a live address, read to its end
\* by both: a realloc of a new address, its free, an alloc and the flush.
C31_Witness ==
    /\ pc = "done"
    /\ ~shared
    /\ OpsIn(output) = <<"a", "r", "f", "a", "f">>
    /\ OpsIn(twin.out) = <<"a", "r", "f", "a", "f">>
    /\ Last(twin.out).end = ""

====
